---- MODULE Spec2Model ----
(***************************************************************************)
(* Model of src/app/drizzle/store/blocks/blocksSaga.js: the two block      *)
(* producers (header subscription channel, block tracker poll channel),    *)
(* the per-block processing sagas, the account balance updater and the     *)
(* watcher wiring of blocksSaga.                                           *)
(*                                                                         *)
(* JavaScript runs one callback to completion: every action below is one   *)
(* provider callback, promise settlement or store dispatch together with   *)
(* every saga step it triggers synchronously (put effects are dispatched   *)
(* inside the same run, in the order they are yielded).                    *)
(***************************************************************************)
EXTENDS Naturals, Sequences, FiniteSets, TLC

(* ------------------------------ bounds -------------------------------- *)
\* Signals from outside the saga: start signals, APP_READY, block events
\* and failures of the providers, account changes, contract registrations.
MaxSignals == 3
MaxContracts == 2

(* ------------------------------ strings ------------------------------- *)
\* A string is a sequence of one-character strings.
EmptyStr == << >>

LowerChar(c) ==
    CASE c = "A" -> "a"
      [] c = "B" -> "b"
      [] OTHER -> c

UpperChar(c) ==
    CASE c = "a" -> "A"
      [] c = "b" -> "B"
      [] OTHER -> c

toLowerCase(s) == [i \in 1..Len(s) |-> LowerChar(s[i])]

endsWith(s, t) ==
    /\ Len(t) <= Len(s)
    /\ SubSeq(s, Len(s) - Len(t) + 1, Len(s)) = t

\* String.prototype.replace(/0x/, ''): the first occurrence of "0x" is removed.
replace0x(s) ==
    LET hits == {i \in 1..(Len(s) - 1) : s[i] = "0" /\ s[i + 1] = "x"}
    IN  IF hits = {} THEN s
        ELSE LET i == CHOOSE j \in hits : \A k \in hits : j <= k
             IN  SubSeq(s, 1, i - 1) \o SubSeq(s, i + 2, Len(s))

\* web3.utils.toChecksumAddress: the letters of the lower-cased address are
\* upper-cased where a hash of the lower-cased address says so.  The hash is
\* a fixed function of the lower-cased body: here the letter at a position is
\* upper-cased iff the other position of the body holds the digit "1".
HashHigh(body, i) == body[3 - i] = "1"

toChecksumAddress(a) ==
    LET low == toLowerCase(a)
        body == SubSeq(low, 3, 4)
    IN  <<"0", "x">> \o [i \in 1..2 |-> IF HashHigh(body, i) THEN UpperChar(body[i]) ELSE body[i]]

\* toChecksumAddress throws unless the argument is "0x" and a hex body.
HexChars == {"a", "A", "b", "B", "0", "1", "2"}

ValidAddress(a) ==
    /\ Len(a) = 4
    /\ a[1] = "0" /\ a[2] = "x"
    /\ a[3] \in HexChars /\ a[4] \in HexChars

(* ----------------------------- addresses ------------------------------ *)
AcctLower == <<"0", "x", "a", "1">>
AcctCheck == <<"0", "x", "A", "1">>
Con1Lower == <<"0", "x", "b", "1">>
Con1Check == <<"0", "x", "B", "1">>
Con2 == <<"0", "x", "1", "2">>
Unknown == <<"0", "x", "b", "2">>
BadAddr == <<"0", "x", "z", "z">>

\* A topic is a 32-byte word: the address body left-padded with zeros.
Pad(a) == <<"0", "x", "0", "0">> \o SubSeq(a, 3, Len(a))
TransferTopic == <<"0", "x", "d", "d">>

NoAccount == EmptyStr

(* --------------------------- contract registry ------------------------ *)
\* drizzle.contracts: an object keyed by contract name, in insertion order.
\* A contract handle is a record [key, address].
AllContracts == << [key |-> "c1", address |-> Con1Lower],
                   [key |-> "c2", address |-> Con2],
                   [key |-> "c3", address |-> <<"0", "x", "2", "1">>],
                   [key |-> "c4", address |-> <<"0", "x", "2", "2">>] >>

NullContract == [key |-> "null", address |-> EmptyStr]

\* drizzle.findContractByAddress(address): the registered contract at that
\* address, or null.
findContractByAddress(reg, address) ==
    LET hits == {i \in 1..Len(reg) : toLowerCase(reg[i].address) = toLowerCase(address)}
    IN  IF address = EmptyStr \/ hits = {} THEN NullContract
        ELSE reg[CHOOSE i \in hits : \A j \in hits : i <= j]

(* ------------------------- pending-sync object ------------------------ *)
\* contractsPendingSync is a JavaScript object: a sequence of [k, v] entries
\* in insertion order; assigning to an existing key keeps its position.
ObjPut(obj, k, v) ==
    LET hits == {i \in 1..Len(obj) : obj[i].k = k}
    IN  IF hits = {} THEN Append(obj, [k |-> k, v |-> v])
        ELSE [i \in 1..Len(obj) |-> IF i \in hits THEN [k |-> k, v |-> v] ELSE obj[i]]

ObjectKeys(obj) == [i \in 1..Len(obj) |-> obj[i].k]

Range(s) == {s[i] : i \in 1..Len(s)}

\* A log has topics from and to when topics[1] and topics[2] are non-empty.
HasFromTo(log) ==
    /\ Len(log.topics) >= 3
    /\ log.topics[2] # EmptyStr
    /\ log.topics[3] # EmptyStr

transactionAffectsUser(log, account) ==
    LET from == log.topics[2]
        to == log.topics[3]
        fromMatch == endsWith(toLowerCase(from), replace0x(account))
        toMatch == endsWith(toLowerCase(to), replace0x(account))
    IN  fromMatch \/ toMatch

\* checkForTransactions: one log's effect on the pending-sync object.
checkForTransactions(pending, log, account, reg) ==
    IF ~HasFromTo(log) THEN pending
    ELSE IF transactionAffectsUser(log, account)
         THEN ObjPut(pending, toChecksumAddress(log.address),
                     findContractByAddress(reg, toLowerCase(log.address)))
         ELSE pending

\* checkForTransactions throws where toChecksumAddress rejects the address.
LogThrows(log, account) ==
    /\ HasFromTo(log)
    /\ transactionAffectsUser(log, account)
    /\ ~ValidAddress(log.address)

\* _.each(logs, checkForTransactions)
ScanLogs(logs, account, reg) ==
    LET F[i \in 0..Len(logs)] ==
            IF i = 0 THEN << >>
            ELSE checkForTransactions(F[i - 1], logs[i], account, reg)
    IN  F[Len(logs)]

\* One transaction's effect: from and to, each recorded under the raw address.
ScanTx(pending, tx, reg) ==
    LET fromContract == findContractByAddress(reg, toLowerCase(tx.from))
        p1 == IF fromContract # NullContract
              THEN ObjPut(pending, tx.from, fromContract) ELSE pending
        toContract == findContractByAddress(reg, toLowerCase(tx.to))
    IN  IF toContract # NullContract THEN ObjPut(p1, tx.to, toContract) ELSE p1

\* The loop over block.transactions.
ScanTxs(pending, txs, reg) ==
    LET F[i \in 0..Len(txs)] ==
            IF i = 0 THEN pending ELSE ScanTx(F[i - 1], txs[i], reg)
    IN  F[Len(txs)]

\* _.intersection(a, b): the distinct values of a that occur in b, in a's order.
intersection(a, b) ==
    LET F[i \in 0..Len(a)] ==
            IF i = 0 THEN << >>
            ELSE IF a[i] \in Range(b) /\ a[i] \notin Range(F[i - 1])
                 THEN Append(F[i - 1], a[i])
                 ELSE F[i - 1]
    IN  F[Len(a)]

\* buildBatchCallRequest that pushes the copy with its addresses as they were.
buildBatchCallRequestWhole(request, subscription, contractAddressesPendingSync) ==
    LET matchedAddreses == intersection(subscription.addresses, contractAddressesPendingSync)
    IN  IF Len(matchedAddreses) > 0 THEN Append(request, subscription) ELSE request

\* buildBatchCallRequest: one subscription's contribution to the request.
buildBatchCallRequest(request, subscription, contractAddressesPendingSync) ==
    LET matchedAddreses == intersection(subscription.addresses, contractAddressesPendingSync)
    IN  IF Len(matchedAddreses) > 0
        THEN Append(request, [subscription EXCEPT !.addresses = matchedAddreses])
        ELSE request

\* _.each(subscriptions, buildBatchCallRequest)
BuildRequest(subs, keys) ==
    LET F[i \in 0..Len(subs)] ==
            IF i = 0 THEN << >>
            ELSE buildBatchCallRequest(F[i - 1], subs[i], keys)
    IN  F[Len(subs)]

\* buildBatchCallRequest without _.clone: newSubscription is the subscription
\* itself, and the assignment of the matched addresses reaches it.
subscriptionLeftNoClone(subscription, contractAddressesPendingSync) ==
    LET matchedAddreses == intersection(subscription.addresses, contractAddressesPendingSync)
    IN  IF Len(matchedAddreses) > 0
        THEN [subscription EXCEPT !.addresses = matchedAddreses]
        ELSE subscription

\* The subscription object of the store after buildBatchCallRequest ran on
\* it: newSubscription is a copy made by _.clone and matchedAddreses a new
\* array, so the assignment newSubscription.addresses = matchedAddreses
\* leaves the subscription as it was.
subscriptionLeft(subscription, contractAddressesPendingSync) == subscription

\* The subscriptions of the store after _.each(subscriptions, buildBatchCallRequest).
SubscriptionsLeft(subs, keys) == [i \in 1..Len(subs) |-> subscriptionLeft(subs[i], keys)]

\* The pending-sync object of a block: logs first, then transactions.
ContractsPendingSync(logs, txs, account, reg) ==
    ScanTxs(ScanLogs(logs, account, reg), txs, reg)

(* ------------------------------- state -------------------------------- *)
VARIABLES
    account,        \* selectAccount(): the current account, or NoAccount
    contracts,      \* drizzle.contracts, in registration order
    subscriptions,  \* selectContractsSubscriptions()
    alive,          \* blocksSaga and its watchers are running
    chans,          \* the event channels created so far, each with its consumer
                    \* task and the events the task has put (log)
    procs,          \* the processBlockHeader / processBlock tasks forked so far,
                    \* each with the events it has put and the calls it made (log)
    bals,           \* the updateAccountEth tasks forked so far, with their log
    calls,          \* provider subscribe / unsubscribe calls, in order
    nblocks,        \* block events fired by the providers
    nsignals        \* signals received from outside the saga

vars == <<account, contracts, subscriptions, alive, chans, procs, bals, calls,
          nblocks, nsignals>>

\* A log entry: what was put or called, the number of block tasks forked
\* when it happened (at), and its payload.
Ev(type, at, data) == [type |-> type, at |-> at, data |-> data]

Accounts == {AcctLower}

Subscriptions0 ==
    << [id |-> "s1", addresses |-> <<Con1Check, Con2>>],
       [id |-> "s2", addresses |-> <<Con1Lower>>] >>

\* Transaction lists of the blocks the provider serves.
TxChoices == { << [from |-> AcctLower, to |-> Con1Check] >> }

\* Results of the log query the provider serves.
LogChoices ==
    { << [address |-> Con1Lower, topics |-> <<TransferTopic, Pad(AcctLower), Pad(Unknown)>>] >>,
      << [address |-> BadAddr, topics |-> <<TransferTopic, Pad(Unknown), Pad(AcctLower)>>] >> }

Block(n, txs) == [number |-> n, transactions |-> txs, isNull |-> FALSE]
NullBlock == [number |-> 0, transactions |-> << >>, isNull |-> TRUE]

(* ------------------------- mutants of the code ------------------------ *)
\* takeEvery in place of takeLatest: the previous task is left running.
takeLatestAsTakeEvery(cs, kind) == cs

\* A consumer task without its finally block: cancelling leaves the channel open.
CancelTaskNoFinally(ch) ==
    IF ch.task = "running" THEN [ch EXCEPT !.task = "cancelled"] ELSE ch

\* An unsubscribe function that does not call off() / stop().
unsubscribeNothing(ch) == ch

\* A failure handler that emits BLOCKS_FAILED without emit(END).
emitEndMissing(ch) == ch

\* A catch block that logs the error and puts nothing.
catchPutsNothing(at) == << >>

\* A catch block that puts BLOCK_FAILED and throws the error on to the
\* enclosing catch, which puts BLOCK_FAILED again.
catchRethrows(at) == << Ev("BLOCK_FAILED", at, << >>), Ev("BLOCK_FAILED", at, << >>) >>

\* blocksSaga without takeEvery('BLOCK_RECEIVED', updateAccountEth).
WorkersNoBalanceOnReceived(type) ==
    CASE type = "APP_READY" -> <<"updateAccountEth">>
      [] type = "BLOCK_RECEIVED" -> <<"processBlockHeader">>
      [] type = "BLOCK_FOUND" -> <<"processBlock">>
      [] OTHER -> << >>

\* processBlock that puts BLOCK_PROCESSING only on the filtering path.
processBlockLateProcessing(at, block, syncAlways, acct, reg) ==
    IF acct = NoAccount THEN [evs |-> << >>, pc |-> "done"]
    ELSE IF syncAlways
         THEN [evs |-> [i \in 1..Len(reg) |-> Ev("CONTRACT_SYNCING", at, <<reg[i]>>)] \o
                       << Ev("BLOCK_PROCESSING", at, <<block>>) >>,
               pc |-> "done"]
         ELSE IF block.isNull
              THEN [evs |-> << Ev("BLOCK_FAILED", at, << >>) >>, pc |-> "done"]
              ELSE [evs |-> << Ev("getPastLogs", at, <<block.number>>),
                               Ev("BLOCK_PROCESSING", at, <<block>>) >>,
                    pc |-> "getLogs"]

\* processBlock that puts BLOCK_PROCESSING before the account check.
processBlockCheckLate(at, block, syncAlways, acct, reg) ==
    LET first == << Ev("BLOCK_PROCESSING", at, <<block>>) >>
    IN  IF acct = NoAccount THEN [evs |-> first, pc |-> "done"]
        ELSE IF syncAlways
             THEN [evs |-> first \o [i \in 1..Len(reg) |->
                                        Ev("CONTRACT_SYNCING", at, <<reg[i]>>)],
                   pc |-> "done"]
             ELSE IF block.isNull
                  THEN [evs |-> first \o << Ev("BLOCK_FAILED", at, << >>) >>,
                        pc |-> "done"]
                  ELSE [evs |-> first \o << Ev("getPastLogs", at, <<block.number>>) >>,
                        pc |-> "getLogs"]

\* processBlock whose syncAlways branch does not return.
processBlockNoReturn(at, block, syncAlways, acct, reg) ==
    IF acct = NoAccount THEN [evs |-> << >>, pc |-> "done"]
    ELSE LET first == << Ev("BLOCK_PROCESSING", at, <<block>>) >>
             sync == IF syncAlways
                     THEN [i \in 1..Len(reg) |-> Ev("CONTRACT_SYNCING", at, <<reg[i]>>)]
                     ELSE << >>
         IN  IF block.isNull
             THEN [evs |-> first \o sync \o << Ev("BLOCK_FAILED", at, << >>) >>,
                   pc |-> "done"]
             ELSE [evs |-> first \o sync \o << Ev("getPastLogs", at, <<block.number>>) >>,
                   pc |-> "getLogs"]

\* processBlock that yields the log query before it puts BLOCK_PROCESSING.
processBlockQueryFirst(at, block, syncAlways, acct, reg) ==
    IF acct = NoAccount THEN [evs |-> << >>, pc |-> "done"]
    ELSE LET first == << Ev("BLOCK_PROCESSING", at, <<block>>) >>
         IN  IF syncAlways
             THEN [evs |-> first \o [i \in 1..Len(reg) |->
                                        Ev("CONTRACT_SYNCING", at, <<reg[i]>>)],
                   pc |-> "done"]
             ELSE IF block.isNull
                  THEN [evs |-> first \o << Ev("BLOCK_FAILED", at, << >>) >>,
                        pc |-> "done"]
                  ELSE [evs |-> << Ev("getPastLogs", at, <<block.number>>) >>,
                        pc |-> "getLogs"]

\* updateAccountEth that checks the account and the provider before it puts
\* ACCOUNT_BALANCES_FETCHING.
updateAccountEthCheckFirst(web3, acct) ==
    IF acct = NoAccount \/ ~web3
    THEN [evs |-> << >>, pc |-> "done"]
    ELSE [evs |-> <<"ACCOUNT_BALANCES_FETCHING", "getBalance">>, pc |-> "getBalance"]

(* ----------------------------- channels ------------------------------- *)
\* The unsubscribe function of a channel: blockEvents.off() / blockTracker.stop().
\* stop() returns a promise, pending until the tracker settles it.
unsubscribe(ch) ==
    [ch EXCEPT !.unsub = @ + 1,
               !.stop = IF ch.kind = "poll" THEN "pending" ELSE @]

\* blockTracker.stop() without its catch: a rejection of stop() is unhandled.
stopNoCatch(ch) == [ch EXCEPT !.stop = "unhandled"]

\* blockTracker.stop().catch((_) => { }): a rejection of stop() is handled
\* by an empty handler.
stopCatch(ch) == [ch EXCEPT !.stop = "swallowed"]

\* eventChannel's close(): a closed channel stays as it is; otherwise the
\* channel is closed and its unsubscribe function is run.
ChannelClose(ch) ==
    IF ch.closed THEN ch ELSE unsubscribe([ch EXCEPT !.closed = TRUE])

\* emit(event) and the consumer's take and put: a closed channel drops the
\* event; otherwise the consumer task, blocked in take, puts it.
emit(ch, type) ==
    IF ch.closed THEN [ch EXCEPT !.dropped = @ \cup {type}]
    ELSE [ch EXCEPT !.log = Append(@, type)]

\* emit(END): the channel closes and the consumer task, blocked in take,
\* ends through its finally block (whose close() finds the channel closed).
emitEnd(ch) ==
    ChannelClose([ch EXCEPT !.task = IF @ = "running" THEN "ended" ELSE @])

\* emit({ type: 'BLOCKS_FAILED', error }); emit(END)
emitFailed(ch) == emitEnd(emit(ch, "BLOCKS_FAILED"))

\* The finally block of callCreateBlockChannel / callCreateBlockPollChannel,
\* run when the task is cancelled while blocked in take.
CancelTask(ch) ==
    IF ch.task = "running" THEN ChannelClose([ch EXCEPT !.task = "cancelled"]) ELSE ch

LastOf(cs, kind) ==
    LET prev == {i \in 1..Len(cs) : cs[i].kind = kind}
    IN  IF prev = {} THEN 0 ELSE CHOOSE i \in prev : \A j \in prev : j <= i

\* takeLatest(pattern, worker): the task forked for the previous signal of
\* the same pattern is cancelled before the worker is forked again.
takeLatest(cs, kind) ==
    LET last == LastOf(cs, kind)
    IN  IF last = 0 THEN cs ELSE [cs EXCEPT ![last] = CancelTask(@)]

\* The provider calls made by the unsubscribe functions between two values
\* of chans, in channel order.
UnsubCall(kind) == IF kind = "header" THEN "off" ELSE "stop"

UnsubCalls(old, new) ==
    LET F[i \in 0..Len(old)] ==
            IF i = 0 THEN << >>
            ELSE F[i - 1] \o [k \in 1..(new[i].unsub - old[i].unsub) |->
                                <<UnsubCall(old[i].kind), i>>]
    IN  F[Len(old)]

\* createBlockChannel: web3.eth.subscribe('newBlockHeaders', ...)
createBlockChannel(syncAlways) ==
    [kind |-> "header", syncAlways |-> syncAlways, closed |-> FALSE, unsub |-> 0,
     task |-> "running", tracker |-> "none", log |-> << >>, dropped |-> {},
     hit |-> FALSE, fails |-> 0, stop |-> "none"]

\* createBlockPollChannel: new BlockTracker(...), blockTracker.start()
createBlockPollChannel(syncAlways) ==
    [kind |-> "poll", syncAlways |-> syncAlways, closed |-> FALSE, unsub |-> 0,
     task |-> "running", tracker |-> "starting", log |-> << >>, dropped |-> {},
     hit |-> FALSE, fails |-> 0, stop |-> "none"]

(* ------------------------- per-block processing ----------------------- *)
\* processBlock up to its first wait: the account check, BLOCK_PROCESSING,
\* the syncAlways short cut, and the log query.  block.number of a null
\* block throws inside the try.
processBlock(at, block, syncAlways, acct, reg) ==
    IF acct = NoAccount THEN [evs |-> << >>, pc |-> "done"]
    ELSE LET first == << Ev("BLOCK_PROCESSING", at, <<block>>) >>
         IN  IF syncAlways
             THEN [evs |-> first \o [i \in 1..Len(reg) |->
                                        Ev("CONTRACT_SYNCING", at, <<reg[i]>>)],
                   pc |-> "done"]
             ELSE IF block.isNull
                  THEN [evs |-> first \o << Ev("BLOCK_FAILED", at, << >>) >>,
                        pc |-> "done"]
                  ELSE [evs |-> first \o << Ev("getPastLogs", at, <<block.number>>) >>,
                        pc |-> "getLogs"]

\* processBlock that puts BATCH_CALL_REQUEST only for a non-empty request.
processBlockLogsSkipEmpty(at, p, logs, reg) ==
    IF \E i \in 1..Len(logs) : LogThrows(logs[i], p.account)
    THEN << Ev("BLOCK_FAILED", at, << >>) >>
    ELSE LET pending == ContractsPendingSync(logs, p.block.transactions, p.account, reg)
             request == BuildRequest(p.subs, ObjectKeys(pending))
         IN  IF request = << >> THEN << >>
             ELSE << Ev("BATCH_CALL_REQUEST", at, request) >>

\* processBlock after the log query returned: the scan of logs and
\* transactions, the request, BATCH_CALL_REQUEST, or BLOCK_FAILED on a throw.
processBlockLogs(at, p, logs, reg) ==
    IF \E i \in 1..Len(logs) : LogThrows(logs[i], p.account)
    THEN << Ev("BLOCK_FAILED", at, << >>) >>
    ELSE LET pending == ContractsPendingSync(logs, p.block.transactions, p.account, reg)
         IN  << Ev("BATCH_CALL_REQUEST", at, BuildRequest(p.subs, ObjectKeys(pending))) >>

\* The catch of processBlock / processBlockHeader.
catchBlockFailed(at) == << Ev("BLOCK_FAILED", at, << >>) >>

\* updateAccountEth up to its first wait.
updateAccountEth(web3, acct) ==
    IF acct = NoAccount \/ ~web3
    THEN [evs |-> <<"ACCOUNT_BALANCES_FETCHING">>, pc |-> "done"]
    ELSE [evs |-> <<"ACCOUNT_BALANCES_FETCHING", "getBalance">>, pc |-> "getBalance"]

Proc(path, c, n, syncAlways, pc, block, acct, subs, log) ==
    [path |-> path, ch |-> c, num |-> n, syncAlways |-> syncAlways, pc |-> pc,
     block |-> block, account |-> acct, subs |-> subs, log |-> log,
     entered |-> path = "poll", nreg |-> Len(contracts), logsFailed |-> FALSE,
     logs |-> << >>]

(* ------------------------------ actions ------------------------------- *)
MoreSignals == nsignals < MaxSignals

Init ==
    /\ account \in Accounts \cup {NoAccount}
    /\ contracts = SubSeq(AllContracts, 1, 1)
    /\ subscriptions = Subscriptions0
    /\ alive = TRUE
    /\ chans = << >>
    /\ procs = << >>
    /\ bals = << >>
    /\ calls = << >>
    /\ nblocks = 0
    /\ nsignals = 0

\* The store's account changes (wallet connected, switched or disconnected).
SetAccount(a) ==
    /\ a # account
    /\ MoreSignals
    /\ nsignals' = nsignals + 1
    /\ account' = a
    /\ UNCHANGED <<contracts, subscriptions, alive, chans, procs, bals, calls,
                   nblocks>>

\* A contract is registered with drizzle.
AddContract ==
    /\ Len(contracts) < MaxContracts
    /\ MoreSignals
    /\ nsignals' = nsignals + 1
    /\ contracts' = Append(contracts, AllContracts[Len(contracts) + 1])
    /\ UNCHANGED <<account, subscriptions, alive, chans, procs, bals, calls,
                   nblocks>>

\* BLOCKS_LISTENING is dispatched: takeLatest runs callCreateBlockChannel.
BlocksListening(syncAlways) ==
    /\ alive
    /\ MoreSignals
    /\ nsignals' = nsignals + 1
    /\ LET cs == takeLatest(chans, "header")
       IN  /\ chans' = Append(cs, createBlockChannel(syncAlways))
           /\ calls' = calls \o UnsubCalls(chans, cs) \o << <<"subscribe", Len(chans) + 1>> >>
    /\ UNCHANGED <<account, contracts, subscriptions, alive, procs, bals, nblocks>>

\* BLOCKS_POLLING is dispatched: takeLatest runs callCreateBlockPollChannel.
BlocksPolling(syncAlways) ==
    /\ alive
    /\ MoreSignals
    /\ nsignals' = nsignals + 1
    /\ LET cs == takeLatest(chans, "poll")
       IN  /\ chans' = Append(cs, createBlockPollChannel(syncAlways))
           /\ calls' = calls \o UnsubCalls(chans, cs) \o << <<"start", Len(chans) + 1>> >>
    /\ UNCHANGED <<account, contracts, subscriptions, alive, procs, bals, nblocks>>

\* The workers blocksSaga attaches to an action type with takeEvery, in
\* the order the watchers are forked.
Workers(type) ==
    CASE type = "APP_READY" -> <<"updateAccountEth">>
      [] type = "BLOCK_RECEIVED" -> <<"processBlockHeader", "updateAccountEth">>
      [] type = "BLOCK_FOUND" -> <<"processBlock">>
      [] OTHER -> << >>

\* APP_READY is dispatched: takeEvery forks updateAccountEth.
AppReady(web3) ==
    /\ alive
    /\ MoreSignals
    /\ nsignals' = nsignals + 1
    /\ LET r == updateAccountEth(web3, account)
       IN  bals' = IF "updateAccountEth" \in Range(Workers("APP_READY"))
                   THEN Append(bals, [pc |-> r.pc, cause |-> "APP_READY", log |-> r.evs,
                                      account |-> account, web3 |-> web3])
                   ELSE bals
    /\ UNCHANGED <<account, contracts, subscriptions, alive, chans, procs, calls,
                   nblocks>>

\* The consumer task's put(event) of a block event taken from channel c:
\* the event is dispatched and every worker attached to its type is forked
\* and runs up to its first wait.
PutBlockEvent(c, type, block) ==
    LET ws == Range(Workers(type))
        h == Len(procs) + 1
        n == nblocks + 1
        pb == processBlock(h, block, chans[c].syncAlways, account, contracts)
        ub == updateAccountEth(TRUE, account)
    IN  /\ procs' =
              IF "processBlockHeader" \in ws
              THEN Append(procs, Proc("header", c, n, chans[c].syncAlways, "getBlock",
                                      NullBlock, NoAccount, << >>,
                                      << Ev("getBlock", h, <<n>>) >>))
              ELSE Append(procs, Proc("poll", c, n, chans[c].syncAlways,
                                      IF "processBlock" \in ws THEN pb.pc ELSE "done",
                                      block, account, subscriptions,
                                      IF "processBlock" \in ws THEN pb.evs ELSE << >>))
        /\ bals' =
              IF "updateAccountEth" \in ws
              THEN Append(bals, [pc |-> ub.pc, cause |-> type, log |-> ub.evs,
                                 account |-> account, web3 |-> TRUE])
              ELSE bals

\* The subscription delivers a header: emit(BLOCK_RECEIVED).  A closed
\* channel drops it; otherwise the consumer task takes it and puts it.
HeaderData(c) ==
    /\ chans[c].kind = "header"
    /\ MoreSignals
    /\ nsignals' = nsignals + 1
    /\ nblocks' = nblocks + 1
    /\ chans' = [chans EXCEPT ![c] = emit(@, "BLOCK_RECEIVED")]
    /\ IF chans[c].closed
       THEN UNCHANGED <<procs, bals>>
       ELSE PutBlockEvent(c, "BLOCK_RECEIVED", NullBlock)
    /\ UNCHANGED <<account, contracts, subscriptions, alive, calls>>

\* The block tracker finds a block: emit(BLOCK_FOUND), with the full block.
TrackerBlock(c, txs) ==
    /\ chans[c].kind = "poll"
    /\ MoreSignals
    /\ nsignals' = nsignals + 1
    /\ nblocks' = nblocks + 1
    /\ chans' = [chans EXCEPT ![c] = emit(@, "BLOCK_FOUND")]
    /\ IF chans[c].closed
       THEN UNCHANGED <<procs, bals>>
       ELSE PutBlockEvent(c, "BLOCK_FOUND", Block(nblocks + 1, txs))
    /\ UNCHANGED <<account, contracts, subscriptions, alive, calls>>

\* One producer failure reaching a channel: BLOCKS_FAILED is emitted, then
\* END.  fails counts the failures, hit records that one found the stream
\* open.
producerFailure(ch) ==
    [emitFailed(ch) EXCEPT !.hit = @ \/ ~ch.closed, !.fails = @ + 1]

\* The subscription fails.  The provider reports the error through the
\* subscribe callback, through its 'error' event, or through both, one
\* after the other.
SubscriptionError(c, mode) ==
    /\ chans[c].kind = "header"
    /\ MoreSignals
    /\ nsignals' = nsignals + 1
    /\ chans' = [chans EXCEPT ![c] =
                    IF mode = "both" THEN producerFailure(producerFailure(@))
                    ELSE producerFailure(@)]
    /\ calls' = calls \o UnsubCalls(chans, chans')
    /\ UNCHANGED <<account, contracts, subscriptions, alive, procs, bals, nblocks>>

\* The promise of blockTracker.start() rejects.
TrackerStartReject(c) ==
    /\ chans[c].kind = "poll"
    /\ chans[c].tracker = "starting"
    /\ MoreSignals
    /\ nsignals' = nsignals + 1
    /\ chans' = [chans EXCEPT ![c] = [producerFailure(@) EXCEPT !.tracker = "failed"]]
    /\ calls' = calls \o UnsubCalls(chans, chans')
    /\ UNCHANGED <<account, contracts, subscriptions, alive, procs, bals, nblocks>>

\* The promise of blockTracker.stop() rejects (the tracker had not started,
\* or had stopped already): the catch handler of unsubscribe runs.
TrackerStopReject(c) ==
    /\ chans[c].kind = "poll"
    /\ chans[c].stop = "pending"
    /\ MoreSignals
    /\ nsignals' = nsignals + 1
    /\ chans' = [chans EXCEPT ![c] = stopCatch(@)]
    /\ UNCHANGED <<account, contracts, subscriptions, alive, procs, bals, calls,
                   nblocks>>

\* getBlock(blockNumber, true) resolves: processBlockHeader calls processBlock.
GetBlockResolve(h, block) ==
    /\ procs[h].pc = "getBlock"
    /\ LET p == procs[h]
           r == processBlock(Len(procs), block, p.syncAlways, account, contracts)
       IN  procs' = [procs EXCEPT ![h] = [p EXCEPT !.pc = r.pc, !.block = block,
                                                   !.account = account,
                                                   !.subs = subscriptions,
                                                   !.entered = TRUE,
                                                   !.nreg = Len(contracts),
                                                   !.log = @ \o r.evs]]
    /\ UNCHANGED <<account, contracts, subscriptions, alive, chans, bals, calls,
                   nblocks, nsignals>>

\* getBlock rejects: the catch of processBlockHeader puts BLOCK_FAILED.
GetBlockReject(h) ==
    /\ procs[h].pc = "getBlock"
    /\ procs' = [procs EXCEPT ![h].pc = "done",
                              ![h].log = @ \o catchBlockFailed(Len(procs))]
    /\ UNCHANGED <<account, contracts, subscriptions, alive, chans, bals, calls,
                   nblocks, nsignals>>

\* getPastLogs resolves: the rest of processBlock runs.
GetLogsResolve(h, logs) ==
    /\ procs[h].pc = "getLogs"
    /\ procs' = [procs EXCEPT ![h].pc = "done", ![h].logs = logs,
                              ![h].log = @ \o processBlockLogs(Len(procs), procs[h], logs, contracts)]
    /\ subscriptions' =
          IF \E i \in 1..Len(logs) : LogThrows(logs[i], procs[h].account)
          THEN subscriptions
          ELSE SubscriptionsLeft(subscriptions,
                   ObjectKeys(ContractsPendingSync(logs, procs[h].block.transactions,
                                                   procs[h].account, contracts)))
    /\ UNCHANGED <<account, contracts, alive, chans, bals, calls, nblocks, nsignals>>

\* getPastLogs rejects: the catch of processBlock puts BLOCK_FAILED.
GetLogsReject(h) ==
    /\ procs[h].pc = "getLogs"
    /\ procs' = [procs EXCEPT ![h].pc = "done", ![h].logsFailed = TRUE,
                              ![h].log = @ \o catchBlockFailed(Len(procs))]
    /\ UNCHANGED <<account, contracts, subscriptions, alive, chans, bals, calls,
                   nblocks, nsignals>>

\* getBalance resolves: ETH_BALANCE_UPDATED is put.
GetBalanceResolve(b) ==
    /\ bals[b].pc = "getBalance"
    /\ bals' = [bals EXCEPT ![b].pc = "done",
                            ![b].log = Append(@, "ETH_BALANCE_UPDATED")]
    /\ UNCHANGED <<account, contracts, subscriptions, alive, chans, procs, calls,
                   nblocks, nsignals>>

\* getBalance rejects: updateAccountEth has no catch, the error aborts the
\* worker, its watcher and blocksSaga, which cancels every other task:
\* the channel tasks run their finally blocks, waiting workers are dropped.
GetBalanceReject(b) ==
    /\ bals[b].pc = "getBalance"
    /\ alive' = FALSE
    /\ bals' = [i \in 1..Len(bals) |->
                  IF i = b THEN [bals[i] EXCEPT !.pc = "aborted"]
                  ELSE IF bals[i].pc = "getBalance" THEN [bals[i] EXCEPT !.pc = "cancelled"]
                  ELSE bals[i]]
    /\ procs' = [i \in 1..Len(procs) |->
                  IF procs[i].pc \in {"getBlock", "getLogs"}
                  THEN [procs[i] EXCEPT !.pc = "cancelled"] ELSE procs[i]]
    /\ chans' = [i \in 1..Len(chans) |-> CancelTask(chans[i])]
    /\ calls' = calls \o UnsubCalls(chans, chans')
    /\ UNCHANGED <<account, contracts, subscriptions, nblocks, nsignals>>

Next ==
    \/ \E a \in Accounts \cup {NoAccount} : SetAccount(a)
    \/ AddContract
    \/ \E s \in BOOLEAN : BlocksListening(s)
    \/ \E s \in BOOLEAN : BlocksPolling(s)
    \/ \E w \in BOOLEAN : AppReady(w)
    \/ \E c \in 1..Len(chans) : HeaderData(c)
    \/ \E c \in 1..Len(chans), txs \in TxChoices : TrackerBlock(c, txs)
    \/ \E c \in 1..Len(chans), mode \in {"callback", "event", "both"} :
          SubscriptionError(c, mode)
    \/ \E c \in 1..Len(chans) : TrackerStartReject(c)
    \/ \E c \in 1..Len(chans) : TrackerStopReject(c)
    \/ \E h \in 1..Len(procs), txs \in TxChoices :
          GetBlockResolve(h, Block(procs[h].num, txs))
    \/ \E h \in 1..Len(procs) : GetBlockResolve(h, NullBlock)
    \/ \E h \in 1..Len(procs) : GetBlockReject(h)
    \/ \E h \in 1..Len(procs), logs \in LogChoices : GetLogsResolve(h, logs)
    \/ \E h \in 1..Len(procs) : GetLogsReject(h)
    \/ \E b \in 1..Len(bals) : GetBalanceResolve(b)
    \/ \E b \in 1..Len(bals) : GetBalanceReject(b)

Spec == Init /\ [][Next]_vars

(* --------------------- processBlock over its inputs -------------------- *)
\* The poll path with the inputs of processBlock drawn from wider sets: the
\* account in both letter cases, subscriptions with repeated, unregistered
\* and differently cased addresses, blocks with and without transactions,
\* log results with upper-case topics, unrelated logs, logs without from
\* and to, unknown emitters and malformed addresses.
FilterAccounts == {AcctLower, AcctCheck}

FilterSubscriptions ==
    { Subscriptions0,
      << [id |-> "s1", addresses |-> <<Con2, Unknown, Con2>>],
         [id |-> "s2", addresses |-> <<Con1Check>>],
         [id |-> "s3", addresses |-> <<Con1Lower, Con1Check>>] >> }

FilterTxs ==
    { << >>,
      << [from |-> AcctLower, to |-> Con1Check] >>,
      << [from |-> Con2, to |-> Con1Lower] >> }

Log(address, from, to) == [address |-> address, topics |-> <<TransferTopic, from, to>>]

FilterLogs ==
    { << Log(Con1Lower, Pad(AcctLower), Pad(Unknown)) >>,
      << Log(Con1Lower, Pad(Unknown), Pad(AcctCheck)) >>,
      << Log(Unknown, Pad(AcctLower), Pad(Unknown)) >>,
      << [address |-> Con2, topics |-> <<TransferTopic>>],
         Log(Con2, Pad(Unknown), Pad(Unknown)) >>,
      << Log(BadAddr, Pad(AcctLower), Pad(Unknown)) >> }

\* The state after BLOCKS_POLLING with syncAlways false.
FilterInit ==
    /\ account \in FilterAccounts
    /\ contracts \in {SubSeq(AllContracts, 1, 1), SubSeq(AllContracts, 1, MaxContracts)}
    /\ subscriptions \in FilterSubscriptions
    /\ alive = TRUE
    /\ chans = << createBlockPollChannel(FALSE) >>
    /\ procs = << >>
    /\ bals = << >>
    /\ calls = << <<"start", 1>> >>
    /\ nblocks = 0
    /\ nsignals = 1

FilterNext ==
    \/ \E txs \in FilterTxs : TrackerBlock(1, txs)
    \/ \E h \in 1..Len(procs), logs \in FilterLogs : GetLogsResolve(h, logs)
    \/ \E h \in 1..Len(procs) : GetLogsReject(h)

FilterSpec == FilterInit /\ [][FilterNext]_vars

(* ------------------------------ properties ---------------------------- *)
Chans == 1..Len(chans)
Procs == 1..Len(procs)
Bals == 1..Len(bals)
Kinds == {"header", "poll"}

Count(seq, Test(_)) == Cardinality({i \in 1..Len(seq) : Test(seq[i])})

\* The events a block task has put (its provider calls left out).
PutTypes == {"BLOCK_PROCESSING", "CONTRACT_SYNCING", "BATCH_CALL_REQUEST", "BLOCK_FAILED"}
NumPut(h, type) == Cardinality({i \in 1..Len(procs[h].log) : procs[h].log[i].type = type})
Passed(h) == procs[h].entered /\ procs[h].account # NoAccount

\* A live producer: an open channel whose provider subscription was not released.
LiveProducer(c) == ~chans[c].closed /\ chans[c].unsub = 0

\* C1: in every reachable state at most one header-subscription producer and
\* at most one poll producer is live, whatever start signals were issued.
C1_AtMostOneLiveProducer ==
    \A k \in Kinds :
        Cardinality({c \in Chans : chans[c].kind = k /\ LiveProducer(c)}) <= 1

\* C1 witness: a second start signal of a kind replaced a running producer.
C1_Witness ==
    \E c1 \in Chans, c2 \in Chans :
        /\ c1 < c2
        /\ chans[c1].kind = chans[c2].kind
        /\ chans[c1].task = "cancelled"
        /\ LiveProducer(c2)

\* Block tasks of the same producer, in delivery order.
SameProducer(h1, h2) == h1 < h2 /\ procs[h1].ch = procs[h2].ch
IsPut(e) == e.type \in PutTypes
IsCall(e) == e.type \in {"getBlock", "getPastLogs"}

NumFailed(c) == Count(chans[c].log, LAMBDA t : t = "BLOCKS_FAILED")

C3_FailureTerminalOnce ==
    \A c \in Chans :
        /\ NumFailed(c) <= 1
        /\ chans[c].hit => NumFailed(c) = 1
        /\ NumFailed(c) = 1 =>
              /\ chans[c].log[Len(chans[c].log)] = "BLOCKS_FAILED"
              /\ chans[c].closed
              /\ chans[c].task = "ended"

\* C3 witness: a stream failed through both the callback and the 'error'
\* event, and a header arrived afterwards.
C3_Witness ==
    \E c \in Chans :
        /\ chans[c].hit
        /\ chans[c].fails = 2
        /\ chans[c].dropped = {"BLOCKS_FAILED", "BLOCK_RECEIVED"}

\* C4: every closed stream has had its provider unsubscribe run exactly
\* once, and no open stream has had it run.
NumUnsubCalls(c) ==
    Count(calls, LAMBDA e : e[2] = c /\ e[1] \in {"off", "stop"})

C4_UnsubscribeExactlyOnce ==
    \A c \in Chans :
        /\ chans[c].closed => (chans[c].unsub = 1 /\ NumUnsubCalls(c) = 1)
        /\ ~chans[c].closed => (chans[c].unsub = 0 /\ NumUnsubCalls(c) = 0)

\* C4 witness: a stream cancelled by a newer start signal on which a
\* producer failure (BLOCKS_FAILED, END) arrived afterwards.
C4_Witness ==
    \E c \in Chans :
        /\ chans[c].task = "cancelled"
        /\ chans[c].fails > 0
        /\ chans[c].unsub = 1

\* C5: whenever a producer's subscription or timer is acquired, every
\* earlier producer of that kind has been released before, so exactly one
\* producer of the kind is active right after the start signal.
IsAcquire(e) == e[1] \in {"subscribe", "start"}
IsRelease(e) == e[1] \in {"off", "stop"}

C5_ReleaseBeforeAcquire ==
    \A i \in 1..Len(calls) :
        IsAcquire(calls[i]) =>
            LET k == chans[calls[i][2]].kind
                acquired == {j \in 1..i : IsAcquire(calls[j]) /\ chans[calls[j][2]].kind = k}
                released == {j \in 1..i : IsRelease(calls[j]) /\ chans[calls[j][2]].kind = k}
            IN  /\ Cardinality(acquired) - Cardinality(released) = 1
                /\ \A j \in acquired \ {i} :
                      \E r \in released : r > j /\ calls[r][2] = calls[j][2]

\* C5 witness: a second start signal of the same kind arrived while the
\* first producer was active: release of the first, then acquire of the second.
C5_Witness ==
    \E i \in 1..Len(calls) :
        /\ i + 2 <= Len(calls)
        /\ calls[i] = <<"start", 1>>
        /\ calls[i + 1] = <<"stop", 1>>
        /\ calls[i + 2] = <<"start", 2>>
        /\ LiveProducer(2)

\* C6: a log query that fails for block N puts exactly one BLOCK_FAILED and
\* no BATCH_CALL_REQUEST for N, and leaves the later blocks of the producer
\* alone: none is dropped while the saga runs, and each one that completes
\* has put its BLOCK_PROCESSING and exactly one of BATCH_CALL_REQUEST and
\* BLOCK_FAILED.
C6_LogFailureIsLocal ==
    \A h \in Procs :
        procs[h].logsFailed =>
            /\ NumPut(h, "BLOCK_FAILED") = 1
            /\ NumPut(h, "BATCH_CALL_REQUEST") = 0
            /\ \A h2 \in Procs :
                  SameProducer(h, h2) =>
                      /\ procs[h2].pc = "cancelled" => ~alive
                      /\ (procs[h2].pc = "done" /\ Passed(h2) /\ ~procs[h2].syncAlways) =>
                            /\ NumPut(h2, "BLOCK_PROCESSING") = 1
                            /\ NumPut(h2, "BATCH_CALL_REQUEST") + NumPut(h2, "BLOCK_FAILED") = 1

\* C6 witness: block N's log query failed before block N+1 arrived, and
\* N+1 was then processed to its BATCH_CALL_REQUEST.
C6_Witness ==
    \E h \in Procs, h2 \in Procs :
        /\ SameProducer(h, h2)
        /\ procs[h].logsFailed
        /\ procs[h].log[Len(procs[h].log)].at < h2
        /\ procs[h2].pc = "done"
        /\ NumPut(h2, "BLOCK_PROCESSING") = 1
        /\ NumPut(h2, "BATCH_CALL_REQUEST") = 1

\* The block events the consumer tasks have put, and the balance updates
\* started in response to an event type.
BlockEventsPut(types) ==
    {<<c, i>> \in Chans \X (1..(2 * MaxSignals)) :
        i <= Len(chans[c].log) /\ chans[c].log[i] \in types}

BalanceUpdates(types) ==
    {b \in Bals : bals[b].cause \in types /\ bals[b].log[1] = "ACCOUNT_BALANCES_FETCHING"}

\* C7 as stated: every BLOCK_RECEIVED and every BLOCK_FOUND starts one
\* balance update.
C7_Original ==
    Cardinality(BalanceUpdates({"BLOCK_RECEIVED", "BLOCK_FOUND"})) =
        Cardinality(BlockEventsPut({"BLOCK_RECEIVED", "BLOCK_FOUND"}))

\* C7 amended: every BLOCK_RECEIVED starts one balance update
\* (ACCOUNT_BALANCES_FETCHING is put in response); BLOCK_FOUND starts none.
C7_ReceivedOnly ==
    /\ Cardinality(BalanceUpdates({"BLOCK_RECEIVED"})) =
          Cardinality(BlockEventsPut({"BLOCK_RECEIVED"}))
    /\ \A b \in Bals : bals[b].cause # "BLOCK_FOUND"

\* C7 witness: a BLOCK_RECEIVED was put and its balance update has put
\* ACCOUNT_BALANCES_FETCHING and fetched the balance.
C7_Witness ==
    \E b \in Bals :
        /\ bals[b].cause = "BLOCK_RECEIVED"
        /\ bals[b].log = <<"ACCOUNT_BALANCES_FETCHING", "getBalance", "ETH_BALANCE_UPDATED">>
        /\ BlockEventsPut({"BLOCK_RECEIVED"}) # {}

\* C8: a block task that passed the account check has put exactly one
\* BLOCK_PROCESSING, before every CONTRACT_SYNCING, BATCH_CALL_REQUEST and
\* BLOCK_FAILED it has put.
C8_ProcessingFirst ==
    \A h \in Procs :
        Passed(h) =>
            LET log == procs[h].log
            IN  /\ NumPut(h, "BLOCK_PROCESSING") = 1
                /\ \A i \in 1..Len(log) :
                      (IsPut(log[i]) /\ log[i].type # "BLOCK_PROCESSING") =>
                          \E j \in 1..(i - 1) : log[j].type = "BLOCK_PROCESSING"

\* C8 witness: one block processed to a request and one whose processing failed.
C8_Witness ==
    \E h1 \in Procs, h2 \in Procs :
        /\ Passed(h1) /\ Passed(h2)
        /\ NumPut(h1, "BATCH_CALL_REQUEST") = 1
        /\ NumPut(h2, "BLOCK_FAILED") = 1

\* C9: processBlock entered with no account puts nothing and queries no
\* logs: the task's log holds at most the block fetch made before it.
C9_NoAccountNoEvents ==
    \A h \in Procs :
        (procs[h].entered /\ procs[h].account = NoAccount) =>
            /\ procs[h].pc = "done"
            /\ \A i \in 1..Len(procs[h].log) : procs[h].log[i].type = "getBlock"

\* C9 witness: a block with transactions processed with no account and
\* syncAlways set.
C9_Witness ==
    \E h \in Procs :
        /\ procs[h].entered
        /\ procs[h].account = NoAccount
        /\ procs[h].syncAlways
        /\ procs[h].block.transactions # << >>

\* C10: with an account and syncAlways, processBlock puts BLOCK_PROCESSING
\* and then one CONTRACT_SYNCING per contract registered at that moment, in
\* registration order, and nothing else: no log query, no BATCH_CALL_REQUEST.
C10_SyncAlwaysOutput ==
    \A h \in Procs :
        (Passed(h) /\ procs[h].syncAlways) =>
            LET log == SelectSeq(procs[h].log, LAMBDA e : e.type # "getBlock")
            IN  /\ procs[h].pc = "done"
                /\ Len(log) = 1 + procs[h].nreg
                /\ log[1].type = "BLOCK_PROCESSING"
                /\ \A i \in 1..procs[h].nreg :
                      /\ log[i + 1].type = "CONTRACT_SYNCING"
                      /\ log[i + 1].data = <<contracts[i]>>

\* C10 witness: a block with transactions processed under syncAlways with
\* two contracts registered.
C10_Witness ==
    \E h \in Procs :
        /\ Passed(h)
        /\ procs[h].syncAlways
        /\ procs[h].nreg = 2
        /\ procs[h].block.transactions # << >>

\* The request of a block task that has put BATCH_CALL_REQUEST, and the keys
\* of the pending-sync object the task built from its own logs and
\* transactions.
HasRequest(h) == procs[h].pc = "done" /\ NumPut(h, "BATCH_CALL_REQUEST") = 1
Request(h) == procs[h].log[Len(procs[h].log)].data
PendingKeys(h) ==
    Range(ObjectKeys(ContractsPendingSync(procs[h].logs, procs[h].block.transactions,
                                          procs[h].account, contracts)))

\* s is t with entries left out: the entries of s occur in t in the same order.
IsSubsequence(s, t) ==
    \E f \in [1..Len(s) -> 1..Len(t)] :
        /\ \A i \in 1..Len(s) : s[i] = t[f[i]]
        /\ \A i \in 1..Len(s), j \in 1..Len(s) : i < j => f[i] < f[j]

NoRepeats(s) == \A i \in 1..Len(s), j \in 1..Len(s) : s[i] = s[j] => i = j

\* C11: the request of BATCH_CALL_REQUEST holds, in subscription order,
\* exactly the subscriptions with an address among the pending-sync keys;
\* each entry is its subscription with the addresses field replaced by the
\* addresses of the subscription that are pending-sync keys (each once, in
\* the subscription's order); a subscription with no such address is left out.
C11_RequestIsIntersection ==
    \A h \in Procs :
        HasRequest(h) =>
            LET subs == procs[h].subs
                r == Request(h)
                K == PendingKeys(h)
                qual == {i \in 1..Len(subs) : Range(subs[i].addresses) \cap K # {}}
                nth(j) == CHOOSE i \in qual : Cardinality({k \in qual : k < i}) = j - 1
            IN  /\ Len(r) = Cardinality(qual)
                /\ \A j \in 1..Len(r) :
                      /\ Range(r[j].addresses) = Range(subs[nth(j)].addresses) \cap K
                      /\ NoRepeats(r[j].addresses)
                      /\ IsSubsequence(r[j].addresses, subs[nth(j)].addresses)
                      /\ r[j] = [subs[nth(j)] EXCEPT !.addresses = r[j].addresses]

\* C11 witness: a request that leaves the first subscription out, copies the
\* second whole and narrows the third to its one pending address.
C11_Witness ==
    \E h \in Procs :
        /\ HasRequest(h)
        /\ Len(procs[h].subs) = 3
        /\ Len(Request(h)) = 2
        /\ Request(h)[1] = procs[h].subs[2]
        /\ Request(h)[2].id = procs[h].subs[3].id
        /\ Len(Request(h)[2].addresses) < Len(procs[h].subs[3].addresses)

\* A log names the account when its from or to topic is the padded account
\* address, letter case aside.
NamesAccount(log, acct) ==
    /\ HasFromTo(log)
    /\ \/ toLowerCase(log.topics[2]) = toLowerCase(Pad(acct))
       \/ toLowerCase(log.topics[3]) = toLowerCase(Pad(acct))

\* C12: every log of the block whose from or to topic is the padded account
\* address has its contract address recorded for sync, whatever the letter
\* case of the account address and of the topic.
C12_Original ==
    \A h \in Procs :
        HasRequest(h) =>
            \A i \in 1..Len(procs[h].logs) :
                NamesAccount(procs[h].logs[i], procs[h].account) =>
                    toChecksumAddress(procs[h].logs[i].address) \in PendingKeys(h)

\* C13: every balance update puts ACCOUNT_BALANCES_FETCHING exactly once, as
\* the first thing it does, with or without an account and a provider; it
\* puts ETH_BALANCE_UPDATED at most once, after fetching the balance, and
\* only when it ran with both an account and a provider; without one of
\* them it ends right after ACCOUNT_BALANCES_FETCHING.
NumBal(b, type) == Count(bals[b].log, LAMBDA t : t = type)

C13_FetchingFirstUpdatedGuarded ==
    \A b \in Bals :
        LET log == bals[b].log
            ready == bals[b].account # NoAccount /\ bals[b].web3
        IN  /\ Len(log) >= 1
            /\ log[1] = "ACCOUNT_BALANCES_FETCHING"
            /\ NumBal(b, "ACCOUNT_BALANCES_FETCHING") = 1
            /\ NumBal(b, "ETH_BALANCE_UPDATED") <= 1
            /\ NumBal(b, "ETH_BALANCE_UPDATED") = 1 =>
                  /\ ready
                  /\ log = <<"ACCOUNT_BALANCES_FETCHING", "getBalance", "ETH_BALANCE_UPDATED">>
            /\ ~ready => (log = <<"ACCOUNT_BALANCES_FETCHING">> /\ bals[b].pc = "done")

\* C13 witness: an update that ran with no account and, after the account
\* was set, one that fetched and put the balance.
C13_Witness ==
    \E b1 \in Bals, b2 \in Bals :
        /\ b1 < b2
        /\ bals[b1].account = NoAccount /\ bals[b1].web3
        /\ bals[b1].log = <<"ACCOUNT_BALANCES_FETCHING">>
        /\ NumBal(b2, "ETH_BALANCE_UPDATED") = 1

\* C14: stopping a poll source is idempotent and silent.  The tracker's
\* stop() is called once however often the stream is closed, a rejection of
\* stop() (tracker not started, or stopped already) never goes unhandled,
\* and a closed poll stream stays closed and delivers nothing more: no
\* BLOCK_FOUND and no BLOCKS_FAILED is put from it and no block task is
\* forked for it, also when the tracker fires or its start() rejects later.
PollChans == {c \in Chans : chans[c].kind = "poll"}

StopIsSilent ==
    \A c \in PollChans :
        /\ chans[c].unsub <= 1
        /\ chans[c].stop # "unhandled"
        /\ chans[c].closed <=> chans[c].stop \in {"pending", "swallowed"}

ClosedStaysSilent ==
    \A c \in PollChans :
        chans[c].closed =>
            /\ chans'[c].closed
            /\ chans'[c].log = chans[c].log
            /\ chans'[c].unsub = chans[c].unsub
            /\ \A h \in 1..Len(procs') : procs'[h].ch = c => h <= Len(procs)

C14_StopIdempotentSilent == []StopIsSilent /\ [][ClosedStaysSilent]_vars

\* C14 witness: a poll stream closed by a newer start signal before its
\* tracker had started, then closed again by the late rejection of start(),
\* whose BLOCKS_FAILED was dropped.
C14_Witness ==
    \E c \in PollChans :
        /\ chans[c].task = "cancelled"
        /\ chans[c].tracker = "failed"
        /\ chans[c].dropped = {"BLOCKS_FAILED"}
        /\ chans[c].log = << >>
        /\ chans[c].stop = "pending"

\* The addresses of registered contracts on the transactions of a block.
SameAddress(a, b) == toLowerCase(a) = toLowerCase(b)

TxContractAddresses(h) ==
    {a \in UNION {{procs[h].block.transactions[i].from, procs[h].block.transactions[i].to} :
                      i \in 1..Len(procs[h].block.transactions)} :
        findContractByAddress(contracts, toLowerCase(a)) # NullContract}

\* C15: the pending-sync keys are in one canonical form: no two keys are
\* the same address in different letter case, and every subscription that
\* lists the address of a registered contract touched by a transaction has
\* that address in the request, whatever its letter case on the transaction.
C15_Original ==
    \A h \in Procs :
        HasRequest(h) =>
            /\ \A k1 \in PendingKeys(h), k2 \in PendingKeys(h) :
                  SameAddress(k1, k2) => k1 = k2
            /\ \A a \in TxContractAddresses(h) :
                  \A i \in 1..Len(procs[h].subs) :
                      \A x \in Range(procs[h].subs[i].addresses) :
                          SameAddress(x, a) =>
                              \E j \in 1..Len(Request(h)) :
                                  /\ Request(h)[j].id = procs[h].subs[i].id
                                  /\ x \in Range(Request(h)[j].addresses)

\* C16: a header task first fetches the full block by the header's number,
\* and puts and queries nothing else until the fetch has returned; a failed
\* fetch puts exactly one BLOCK_FAILED and no BLOCK_PROCESSING; and no
\* header task puts more than one BLOCK_FAILED, wherever it fails.
HeaderProcs == {h \in Procs : procs[h].path = "header"}
FetchFailed(h) == ~procs[h].entered /\ procs[h].pc = "done"

C16_FetchFirstOneFailure ==
    \A h \in HeaderProcs :
        LET log == procs[h].log
        IN  /\ log[1].type = "getBlock"
            /\ log[1].data = <<procs[h].num>>
            /\ \A i \in 2..Len(log) : log[i].type # "getBlock"
            /\ ~procs[h].entered => \A i \in 2..Len(log) : log[i].type = "BLOCK_FAILED"
            /\ FetchFailed(h) =>
                  /\ NumPut(h, "BLOCK_FAILED") = 1
                  /\ NumPut(h, "BLOCK_PROCESSING") = 0
            /\ NumPut(h, "BLOCK_FAILED") <= 1

\* C16 witness: one header whose fetch failed, and one whose fetch returned
\* and whose logs then made the request construction throw.
C16_Witness ==
    \E h1 \in HeaderProcs, h2 \in HeaderProcs :
        /\ FetchFailed(h1)
        /\ NumPut(h1, "BLOCK_FAILED") = 1
        /\ procs[h2].entered
        /\ procs[h2].logs # << >>
        /\ NumPut(h2, "BLOCK_PROCESSING") = 1
        /\ NumPut(h2, "BLOCK_FAILED") = 1

\* The addresses a block task can have recorded from its own logs and its
\* own transactions.
OwnAddresses(h) ==
    {toChecksumAddress(procs[h].logs[i].address) : i \in 1..Len(procs[h].logs)} \cup
    UNION {{procs[h].block.transactions[i].from, procs[h].block.transactions[i].to} :
              i \in 1..Len(procs[h].block.transactions)}

RequestAddresses(h) == UNION {Range(Request(h)[j].addresses) : j \in 1..Len(Request(h))}

TouchesNothing(h) ==
    \A i \in 1..Len(procs[h].subs) :
        Range(procs[h].subs[i].addresses) \cap OwnAddresses(h) = {}

LogsDelivered(h) ==
    /\ ~procs[h].block.isNull
    /\ ~procs[h].logsFailed
    /\ \A i \in 1..Len(procs[h].logs) : ValidAddress(procs[h].logs[i].address)

C18_ExactlyOneOutcome ==
    \A h \in Procs :
        (Passed(h) /\ ~procs[h].syncAlways) =>
            LET n == NumPut(h, "BATCH_CALL_REQUEST") + NumPut(h, "BLOCK_FAILED")
                last == procs[h].log[Len(procs[h].log)]
            IN  /\ procs[h].pc = "getLogs" => n = 0
                /\ procs[h].pc = "done" =>
                      /\ n = 1
                      /\ last.type \in {"BATCH_CALL_REQUEST", "BLOCK_FAILED"}
                      /\ (TouchesNothing(h) /\ LogsDelivered(h)) =>
                            (last.type = "BATCH_CALL_REQUEST" /\ last.data = << >>)

\* C18 witness: a block with no transactions and only unrelated logs that
\* put an empty request, and a block whose log query was rejected.
C18_Witness ==
    \E h1 \in Procs, h2 \in Procs :
        /\ procs[h1].pc = "done" /\ procs[h2].pc = "done"
        /\ procs[h1].block.transactions = << >>
        /\ procs[h1].logs # << >>
        /\ HasRequest(h1) /\ Request(h1) = << >>
        /\ procs[h2].logsFailed
        /\ NumPut(h2, "BLOCK_FAILED") = 1

\* C19: a balance fetch that fails does not stop the Coordinator: after a
\* getBalance rejection the watchers of blocksSaga still run (start signals
\* and block events are still routed), the block tasks waiting for their
\* provider calls are still there, and the latest producer of each kind,
\* unless it failed itself, keeps running.
BalanceFetchFailed == \E b \in Bals : bals[b].pc = "aborted"

C19_Original ==
    BalanceFetchFailed =>
        /\ alive
        /\ \A h \in Procs : procs[h].pc # "cancelled"
        /\ \A c \in Chans :
              (c = LastOf(chans, chans[c].kind) /\ chans[c].fails = 0) =>
                  (chans[c].task = "running" /\ ~chans[c].closed)

\* The pending-sync object a block task built.
PendingSync(h) ==
    ContractsPendingSync(procs[h].logs, procs[h].block.transactions,
                         procs[h].account, contracts)

\* C20: every entry of the pending-sync object holds a contract of the
\* registry, from logs and from transactions alike, and every address in an
\* emitted request is the address of a registered contract.
C20_Original ==
    \A h \in Procs :
        HasRequest(h) =>
            /\ \A i \in 1..Len(PendingSync(h)) : PendingSync(h)[i].v # NullContract
            /\ \A a \in RequestAddresses(h) :
                  findContractByAddress(contracts, toLowerCase(a)) # NullContract

====
